---- MODULE Spec2Model ----
(***************************************************************************)
(* AtlasBot (src/script.js): the word-chain game of one browser page.      *)
(* The page holds four globals (used, lastLetter, wordlist, prettyMap),    *)
(* one pending fetch of wordlist.json, the text field #userWord, the       *)
(* message element #result and the timers that playWord arms for botMove.  *)
(* JavaScript runs each callback to completion, so every callback is one   *)
(* action.  A word is a sequence of one-character strings.                 *)
(***************************************************************************)
EXTENDS Naturals, Sequences, FiniteSets

VARIABLES
  used,            \* script.js:1   the played words, in play order
  lastLetter,      \* script.js:2   the required letter, or null
  wordlist,        \* script.js:3   the normalised forms, in file order
  prettyMap,       \* script.js:4   normalised form -> display form
  fetchState,      \* script.js:7   "pending" until the fetch callback has run
  userWord,        \* script.js:22  the value of the text field #userWord
  result,          \* script.js:78  the message in #result
  shown,           \* script.js:71  the text of #lastLetter and #usedWords
  pendingBotMoves, \* script.js:49  the armed botMove timers not yet fired
  playedBy,        \* script.js:43,64  history: who pushed each word of used
  youWinShown,     \* script.js:58  history: the win message was shown
  stuckReports     \* script.js:58  history: how often it was shown

vars == <<used, lastLetter, wordlist, prettyMap, fetchState, userWord,
          result, shown, pendingBotMoves, playedBy, youWinShown,
          stuckReports>>

\* JavaScript's null and undefined.
null == "null"
undefined == "undefined"

----------------------------------------------------------------------------
\* Characters

lowerLetters == <<"a","b","c","d","e","f","g","h","i","j","k","l","m",
                  "n","o","p","q","r","s","t","u","v","w","x","y","z">>
upperLetters == <<"A","B","C","D","E","F","G","H","I","J","K","L","M",
                  "N","O","P","Q","R","S","T","U","V","W","X","Y","Z">>

\* U+0130 (capital I with dot above) lowercases to "i" followed by the
\* combining dot U+0307; U+212A (Kelvin sign) lowercases to "k".
lowerChar(c) ==
  IF \E i \in 1..26 : upperLetters[i] = c
    THEN <<lowerLetters[CHOOSE i \in 1..26 : upperLetters[i] = c]>>
    ELSE IF c = "U+0130" THEN <<"i", "U+0307">>
    ELSE IF c = "U+212A" THEN <<"k">>
    ELSE <<c>>

\* String.prototype.toLowerCase
RECURSIVE toLowerCase(_)
toLowerCase(word) ==
  IF word = <<>> THEN <<>>
  ELSE lowerChar(Head(word)) \o toLowerCase(Tail(word))

\* the character class [a-z]
isAZ(c) == \E i \in 1..26 : lowerLetters[i] = c

\* String.prototype.trim: white space off both ends
isSpace(c) == c \in {" ", "\t", "U+00A0"}

RECURSIVE trimStart(_)
trimStart(s) ==
  IF s # <<>> /\ isSpace(Head(s)) THEN trimStart(Tail(s)) ELSE s

RECURSIVE trimEnd(_)
trimEnd(s) ==
  IF s # <<>> /\ isSpace(s[Len(s)]) THEN trimEnd(SubSeq(s, 1, Len(s) - 1)) ELSE s

trim(s) == trimEnd(trimStart(s))

\* normalizeInput without the lowercasing
normalizeInputNoLowercase(word) == SelectSeq(word, isAZ)

\* word.toLowerCase().replace(/[^a-z]/g, "")
normalizeInput(word) == SelectSeq(toLowerCase(word), isAZ)

\* Array.prototype.includes
includes(arr, x) == \E i \in 1..Len(arr) : arr[i] = x

\* w[0] and w.slice(-1)
firstChar(w) == IF w = <<>> THEN undefined ELSE w[1]
lastChar(w) == IF w = <<>> THEN "" ELSE w[Len(w)]

\* the truth value JavaScript gives a letter-or-null
truthy(x) == x # null /\ x # undefined /\ x # ""

----------------------------------------------------------------------------
\* wordlist.json: what the fetch may deliver.  Each item is {pretty, norm},
\* norm being the pre-mapped normalised form of pretty.

\* the four-word list of the specification's end-to-end run
wordlistAtlas ==
  <<[pretty |-> <<"I","n","d","i","a">>,
     norm |-> <<"i","n","d","i","a">>],
    [pretty |-> <<"A","f","g","h","a","n","i","s","t","a","n">>,
     norm |-> <<"a","f","g","h","a","n","i","s","t","a","n">>],
    [pretty |-> <<"N","e","p","a","l">>,
     norm |-> <<"n","e","p","a","l">>],
    [pretty |-> <<"L","a","o","s">>,
     norm |-> <<"l","a","o","s">>]>>

\* a list with words from and to the same letter, and dead ends
wordlistNorth ==
  <<[pretty |-> <<"O","m","a","n">>,
     norm |-> <<"o","m","a","n">>],
    [pretty |-> <<"N","o","r","w","a","y">>,
     norm |-> <<"n","o","r","w","a","y">>],
    [pretty |-> <<"Y","e","m","e","n">>,
     norm |-> <<"y","e","m","e","n">>],
    [pretty |-> <<"N","i","g","e","r">>,
     norm |-> <<"n","i","g","e","r">>],
    [pretty |-> <<"R","u","s","s","i","a">>,
     norm |-> <<"r","u","s","s","i","a">>],
    [pretty |-> <<"A","u","s","t","r","i","a">>,
     norm |-> <<"a","u","s","t","r","i","a">>],
    [pretty |-> <<"A","l","b","a","n","i","a">>,
     norm |-> <<"a","l","b","a","n","i","a">>]>>

\* a list in which two display forms share one normalised form
wordlistAliases ==
  <<[pretty |-> <<"T","i","m","o","r","-","L","e","s","t","e">>,
     norm |-> <<"t","i","m","o","r","l","e","s","t","e">>],
    [pretty |-> <<"E","s","w","a","t","i","n","i">>,
     norm |-> <<"e","s","w","a","t","i","n","i">>],
    [pretty |-> <<"e","S","w","a","t","i","n","i">>,
     norm |-> <<"e","s","w","a","t","i","n","i">>],
    [pretty |-> <<"I","r","a","n">>,
     norm |-> <<"i","r","a","n">>],
    [pretty |-> <<"N","i","g","e","r">>,
     norm |-> <<"n","i","g","e","r">>],
    [pretty |-> <<"R","u","s","s","i","a">>,
     norm |-> <<"r","u","s","s","i","a">>]>>

\* a further list
wordlistExtra ==
  <<[pretty |-> <<"C","h","a","d">>,
     norm |-> <<"c","h","a","d">>],
    [pretty |-> <<"D","e","n","m","a","r","k">>,
     norm |-> <<"d","e","n","m","a","r","k">>],
    [pretty |-> <<"K","e","n","y","a">>,
     norm |-> <<"k","e","n","y","a">>],
    [pretty |-> <<"A","n","g","o","l","a">>,
     norm |-> <<"a","n","g","o","l","a">>],
    [pretty |-> <<"A","l","g","e","r","i","a">>,
     norm |-> <<"a","l","g","e","r","i","a">>]>>

allWordlists == <<wordlistAtlas, wordlistNorth, wordlistAliases, wordlistExtra>>

\* how many of the lists the model draws from
NumWordlists == 3

min(a, b) == IF a < b THEN a ELSE b

WordlistFiles ==
  {allWordlists[i] : i \in 1..min(NumWordlists, Len(allWordlists))}

\* what the user may have typed into #userWord when clicking: nothing,
\* punctuation, a word of no list, and spellings of the words of each list drawn
typedOther ==
  {<<>>,
   <<"-">>,
   <<"P","e","r","u">>}

typedAtlas ==
  {<<"I","n","d","i","a">>,
   <<" ","i","n","d","i","a"," ">>,
   <<"U+0130","n","d","i","a">>,
   <<"a","f","g","h","a","n","i","s","t","a","n">>,
   <<"n","e","p","a","l">>,
   <<"l","a","o","s">>}

typedNorth ==
  {<<"O","m","a","n">>,
   <<"N","o","r","w","a","y">>,
   <<"Y","e","m","e","n">>,
   <<"N","i","g","e","r">>,
   <<"R","u","s","s","i","a">>,
   <<"A","u","s","t","r","i","a">>,
   <<"A","l","b","a","n","i","a">>}

typedAliases ==
  {<<"T","i","m","o","r","-","L","e","s","t","e","!">>,
   <<"E","s","w","a","t","i","n","i">>,
   <<"I","r","a","n">>,
   <<"N","i","g","e","r">>,
   <<"R","u","s","s","i","a">>}

typedExtra ==
  {<<"C","h","a","d">>,
   <<"D","e","n","m","a","r","k">>,
   <<"U+212A","e","n","y","a">>,
   <<"A","n","g","o","l","a">>,
   <<"A","l","g","e","r","i","a">>}

allTyped == <<typedAtlas, typedNorth, typedAliases, typedExtra>>

RawInputs ==
  typedOther \cup
  UNION {allTyped[i] : i \in 1..min(NumWordlists, Len(allTyped))}

----------------------------------------------------------------------------
\* The page

\* text of the messages setResult shows
msgPleaseEnter == "Please enter a country."
msgInvalid == "Invalid country!"
msgAlreadyUsed == "Already used!"
msgMustStart == "Must start with"
msgYouPlayed == "You played:"
msgYouWin == "You win! Bot stuck."
msgBotPlayed == "Bot played:"

\* the markup's own text of an element no script has written yet
unwritten == <<"unwritten">>

Init ==
  /\ used = <<>>
  /\ lastLetter = null
  /\ wordlist = <<>>
  /\ prettyMap = <<>>
  /\ fetchState = "pending"
  /\ userWord = <<>>
  /\ result = [msg |-> "", arg |-> unwritten]
  /\ shown = [lastLetter |-> unwritten, usedWords |-> unwritten]
  /\ pendingBotMoves = 0
  /\ playedBy = <<>>
  /\ youWinShown = FALSE
  /\ stuckReports = 0

\* prettyMap[w]; a missing key reads as undefined
prettyOf(map, w) == IF w \in DOMAIN map THEN map[w] ELSE <<undefined>>

\* Array.prototype.join(", ")
RECURSIVE join(_)
join(texts) ==
  IF texts = <<>> THEN <<>>
  ELSE IF Len(texts) = 1 THEN texts[1]
  ELSE texts[1] \o <<",", " ">> \o join(Tail(texts))

\* the fetch callback: every item is pushed and mapped in one run
loadWordlist ==
  /\ fetchState = "pending"
  /\ \E data \in WordlistFiles :
       /\ wordlist' = wordlist \o [i \in 1..Len(data) |-> data[i].norm]
       /\ prettyMap' =
            [n \in DOMAIN prettyMap \cup {data[i].norm : i \in 1..Len(data)} |->
               IF \E i \in 1..Len(data) : data[i].norm = n
                 THEN data[CHOOSE i \in 1..Len(data) :
                             /\ data[i].norm = n
                             /\ \A j \in (i+1)..Len(data) : data[j].norm # n].pretty
                 ELSE prettyMap[n]]
  /\ fetchState' = "done"
  /\ UNCHANGED <<used, lastLetter, userWord, result, shown, pendingBotMoves,
                 playedBy, youWinShown, stuckReports>>

\* the user edits the text field
typeWord ==
  /\ \E text \in RawInputs : userWord' = text
  /\ userWord' # userWord
  /\ UNCHANGED <<used, lastLetter, wordlist, prettyMap, fetchState, result,
                 shown, pendingBotMoves, playedBy, youWinShown, stuckReports>>

setResult(msg, arg) ==
  /\ result' = [msg |-> msg, arg |-> arg]
  /\ youWinShown' = (youWinShown \/ msg = msgYouWin)
  /\ stuckReports' = IF msg = msgYouWin THEN stuckReports + 1 ELSE stuckReports

\* updateUI, run after used and lastLetter were assigned
updateUI ==
  /\ shown' =
       [lastLetter |-> IF truthy(lastLetter') THEN <<lastLetter'>> ELSE <<"-">>,
        usedWords |->
          LET text == join([i \in 1..Len(used') |-> prettyOf(prettyMap, used'[i])])
          IN  IF text = <<>> THEN <<"N","o","n","e">> ELSE text]
  /\ userWord' = <<>>

\* rejection with the already-used check left out
rejectionNoUsedCheck(normWord) ==
  IF normWord = <<>> THEN msgPleaseEnter
  ELSE IF ~includes(wordlist, normWord) THEN msgInvalid
  ELSE IF truthy(lastLetter) /\ firstChar(normWord) # lastLetter THEN msgMustStart
  ELSE ""

\* rejection with the first-letter check left out
rejectionNoLetterCheck(normWord) ==
  IF normWord = <<>> THEN msgPleaseEnter
  ELSE IF ~includes(wordlist, normWord) THEN msgInvalid
  ELSE IF includes(used, normWord) THEN msgAlreadyUsed
  ELSE ""

\* rejection with the first-letter check made before the already-used check
rejectionLetterCheckFirst(normWord) ==
  IF normWord = <<>> THEN msgPleaseEnter
  ELSE IF ~includes(wordlist, normWord) THEN msgInvalid
  ELSE IF truthy(lastLetter) /\ firstChar(normWord) # lastLetter THEN msgMustStart
  ELSE IF includes(used, normWord) THEN msgAlreadyUsed
  ELSE ""

\* rejection comparing the first letter with lastLetter even while it is null
rejectionNoNullGuard(normWord) ==
  IF normWord = <<>> THEN msgPleaseEnter
  ELSE IF ~includes(wordlist, normWord) THEN msgInvalid
  ELSE IF includes(used, normWord) THEN msgAlreadyUsed
  ELSE IF firstChar(normWord) # lastLetter THEN msgMustStart
  ELSE ""

\* rejection taking every word for known while the list is empty
rejectionEmptyListAcceptsAll(normWord) ==
  IF normWord = <<>> THEN msgPleaseEnter
  ELSE IF wordlist # <<>> /\ ~includes(wordlist, normWord) THEN msgInvalid
  ELSE IF includes(used, normWord) THEN msgAlreadyUsed
  ELSE IF truthy(lastLetter) /\ firstChar(normWord) # lastLetter THEN msgMustStart
  ELSE ""

\* the checks of playWord in their order: the message of the first that
\* fails, or "" when the word passes all four
rejection(normWord) ==
  IF normWord = <<>> THEN msgPleaseEnter
  ELSE IF ~includes(wordlist, normWord) THEN msgInvalid
  ELSE IF includes(used, normWord) THEN msgAlreadyUsed
  ELSE IF truthy(lastLetter) /\ firstChar(normWord) # lastLetter THEN msgMustStart
  ELSE ""

\* playWord arming the bot's timer before it validates the word
playWordArmsTimerFirst ==
  LET input == trim(userWord)
      normWord == normalizeInput(input)
      failed == rejection(normWord)
  IN  /\ pendingBotMoves' = pendingBotMoves + 1
      /\ IF failed # ""
           THEN /\ setResult(failed,
                             IF failed = msgMustStart THEN <<lastLetter>> ELSE <<>>)
                /\ UNCHANGED <<used, lastLetter, wordlist, prettyMap, fetchState,
                               userWord, shown, playedBy>>
           ELSE /\ used' = Append(used, normWord)
                /\ playedBy' = Append(playedBy, "player")
                /\ lastLetter' = lastChar(normWord)
                /\ updateUI
                /\ setResult(msgYouPlayed, prettyOf(prettyMap, normWord))
                /\ UNCHANGED <<wordlist, prettyMap, fetchState>>

\* the click handler
playWord ==
  LET input == trim(userWord)
      normWord == normalizeInput(input)
      failed == rejection(normWord)
  IN  IF failed # ""
        THEN /\ setResult(failed,
                          IF failed = msgMustStart THEN <<lastLetter>> ELSE <<>>)
             /\ UNCHANGED <<used, lastLetter, wordlist, prettyMap, fetchState,
                            userWord, shown, pendingBotMoves, playedBy>>
        ELSE /\ used' = Append(used, normWord)
             /\ playedBy' = Append(playedBy, "player")
             /\ lastLetter' = lastChar(normWord)
             /\ updateUI
             /\ setResult(msgYouPlayed, prettyOf(prettyMap, normWord))
             /\ pendingBotMoves' = pendingBotMoves + 1
             /\ UNCHANGED <<wordlist, prettyMap, fetchState>>

\* candidates without the filter on used words
candidatesIgnoringUsed ==
  SelectSeq(wordlist, LAMBDA w : firstChar(w) = lastLetter)

\* candidates without the filter on the first letter
candidatesAnyLetter ==
  SelectSeq(wordlist, LAMBDA w : ~includes(used, w))

\* wordlist.filter(w => w[0] === lastLetter && !used.includes(w))
candidates ==
  SelectSeq(wordlist,
            LAMBDA w : firstChar(w) = lastLetter /\ ~includes(used, w))

\* the bot giving up while one candidate is left
botStuckOffByOne == Len(candidates) <= 1

\* candidates.length === 0
botStuck == Len(candidates) = 0

\* a timer armed by playWord fires
botMove ==
  /\ pendingBotMoves > 0
  /\ pendingBotMoves' = pendingBotMoves - 1
  /\ IF botStuck
       THEN /\ setResult(msgYouWin, <<>>)
            /\ UNCHANGED <<used, lastLetter, wordlist, prettyMap, fetchState,
                           userWord, shown, playedBy>>
       ELSE \E k \in 1..Len(candidates) :
              LET botWord == candidates[k]
              IN  /\ used' = Append(used, botWord)
                  /\ playedBy' = Append(playedBy, "bot")
                  /\ lastLetter' = lastChar(botWord)
                  /\ updateUI
                  /\ setResult(msgBotPlayed, prettyOf(prettyMap, botWord))
                  /\ UNCHANGED <<wordlist, prettyMap, fetchState>>

Next == loadWordlist \/ typeWord \/ playWord \/ botMove

Spec == Init /\ [][Next]_vars

\* an armed timer fires in the end: the event loop runs every due callback
FairSpec == Spec /\ WF_vars(botMove)

----------------------------------------------------------------------------
\* normalizeInput on arbitrary text: the page starts with any short text in
\* the text field and the click handler normalises it

\* longest text drawn
MaxTextLen == 3

\* lower and upper case letters, a letter outside ASCII, a space, a hyphen,
\* punctuation and a digit
textAlphabet == {"a", "B", "U+0130", " ", "-", "!", "7"}

Texts == UNION {[1..k -> textAlphabet] : k \in 0..MaxTextLen}

InitNormalize ==
  /\ userWord \in Texts
  /\ used = <<>>
  /\ lastLetter = null
  /\ wordlist = <<>>
  /\ prettyMap = <<>>
  /\ fetchState = "pending"
  /\ result = [msg |-> "", arg |-> unwritten]
  /\ shown = [lastLetter |-> unwritten, usedWords |-> unwritten]
  /\ pendingBotMoves = 0
  /\ playedBy = <<>>
  /\ youWinShown = FALSE
  /\ stuckReports = 0

NextNormalize == playWord

SpecNormalize == InitNormalize /\ [][NextNormalize]_vars

----------------------------------------------------------------------------
\* The rules of the game, stated apart from the handlers

\* the vocabulary index and the played words, as sets
Vocabulary == {wordlist[i] : i \in 1..Len(wordlist)}
Played == {used[i] : i \in 1..Len(used)}

\* the unused vocabulary words that start with the required letter
LegalWords == {w \in Vocabulary : w \notin Played /\ w # <<>> /\ w[1] = lastLetter}

\* the normalised form of what is in the text field
Submitted == normalizeInput(userWord)

\* a submission the rules accept
Acceptable ==
  /\ Submitted # <<>>
  /\ Submitted \in Vocabulary
  /\ Submitted \notin Played
  /\ (used = <<>> \/ Submitted[1] = lastLetter)

\* the outcome the rules give a submission: the first failing check
ExpectedOutcome ==
  IF Submitted = <<>> THEN msgPleaseEnter
  ELSE IF Submitted \notin Vocabulary THEN msgInvalid
  ELSE IF Submitted \in Played THEN msgAlreadyUsed
  ELSE IF used # <<>> /\ Submitted[1] # lastLetter THEN msgMustStart
  ELSE msgYouPlayed

RejectionMessages == {msgPleaseEnter, msgInvalid, msgAlreadyUsed, msgMustStart}

\* C1: the played sequence never holds a word twice: the number of distinct
\* played words equals its length, under every interleaving of submissions
\* and bot timers.
C1_NoDuplicates == Cardinality(Played) = Len(used)

\* both parties have played, the player twice
C1_Witness ==
  /\ Len(used) >= 3
  /\ includes(playedBy, "bot")
  /\ Cardinality({i \in 1..Len(playedBy) : playedBy[i] = "player"}) >= 2

\* C2: every played word but the first starts with the last letter of the
\* word before it; lastLetter is null exactly when nothing was played and
\* is otherwise the last character of the latest word.
C2_LetterChain ==
  /\ \A i \in 2..Len(used) : used[i][1] = used[i-1][Len(used[i-1])]
  /\ (lastLetter = null) <=> (used = <<>>)
  /\ used # <<>> => lastLetter = used[Len(used)][Len(used[Len(used)])]

\* a chain of a player word and the bot's answer to it
C2_Witness ==
  /\ Len(used) >= 2
  /\ playedBy[Len(used) - 1] = "player"
  /\ playedBy[Len(used)] = "bot"

\* C3: turn order is strictly alternating: odd positions of the played
\* sequence are the player's, even positions the bot's.
C3_StrictAlternation ==
  \A i \in 1..Len(playedBy) :
    playedBy[i] = IF i % 2 = 1 THEN "player" ELSE "bot"

\* C4: a submission is accepted iff its normalised form is non-empty, in the
\* vocabulary, unused and (when a word was played) starts with the required
\* letter; accepting appends exactly that word, makes its last character the
\* required letter and arms exactly one bot move.
C4_AcceptIff ==
  [][playWord =>
       /\ (used' # used) <=> Acceptable
       /\ Acceptable =>
            /\ used' = Append(used, Submitted)
            /\ lastLetter' = Submitted[Len(Submitted)]
            /\ pendingBotMoves' = pendingBotMoves + 1]_vars

\* the player's word was accepted after earlier words, its bot move pending
C4_Witness ==
  /\ result.msg = msgYouPlayed
  /\ Len(used) >= 3
  /\ playedBy[Len(used)] = "player"
  /\ pendingBotMoves >= 1

\* C5: a rejected submission leaves the played sequence and the required
\* letter as they were and arms no bot move.
C5_RejectionKeepsState ==
  [][playWord /\ ~Acceptable =>
       /\ used' = used
       /\ lastLetter' = lastLetter
       /\ pendingBotMoves' = pendingBotMoves]_vars

\* a vocabulary word was rejected for its first letter in a running game
C5_Witness ==
  /\ result.msg = msgMustStart
  /\ used # <<>>
  /\ Submitted \in Vocabulary
  /\ ~Acceptable

\* C6: the failure reported is that of the first failing check in the order
\* empty, unknown, already used, wrong letter; so a played word is reported
\* as already used whatever its casing and the required letter.
C6_FirstFailingCheck ==
  [][playWord =>
       /\ result'.msg = ExpectedOutcome
       /\ Submitted \in Played => result'.msg = msgAlreadyUsed
       /\ (/\ used # <<>>
           /\ Submitted \in Vocabulary \ Played
           /\ Submitted[1] # lastLetter) => result'.msg = msgMustStart]_vars

\* a played word, typed in another casing and not starting with the required
\* letter, was reported as already used
C6_Witness ==
  /\ result.msg = msgAlreadyUsed
  /\ userWord # Submitted
  /\ Submitted \in Played
  /\ Submitted[1] # lastLetter

\* C7: while nothing has been played, submitting any vocabulary entry is
\* accepted, whatever its first letter.
C7_FirstMoveFree ==
  [][playWord /\ used = <<>> /\ Submitted \in Vocabulary =>
       /\ used' = <<Submitted>>
       /\ result'.msg = msgYouPlayed]_vars

\* the first word of a game was the player's
C7_Witness ==
  /\ Len(used) = 1
  /\ playedBy = <<"player">>
  /\ result.msg = msgYouPlayed

\* C8: a word the bot plays is an unused vocabulary word starting with the
\* letter required when the bot move runs; so every played word is in the
\* vocabulary.
C8_BotPlaysCandidate ==
  /\ [](Played \subseteq Vocabulary)
  /\ [][botMove /\ used' # used =>
          \E w \in LegalWords : used' = Append(used, w)]_vars

\* the bot has answered
C8_Witness ==
  /\ result.msg = msgBotPlayed
  /\ used # <<>>
  /\ playedBy[Len(used)] = "bot"

\* C9: a bot move announces the player's win iff no unused vocabulary word
\* starts with the required letter, and then plays nothing; with a candidate
\* it plays exactly one word.
C9_WinIffNoCandidate ==
  [][botMove =>
       /\ (result'.msg = msgYouWin) <=> (LegalWords = {})
       /\ LegalWords = {} => used' = used /\ lastLetter' = lastLetter
       /\ LegalWords # {} => Len(used') = Len(used) + 1]_vars

\* the bot played earlier in the game and is now stuck
C9_Witness ==
  /\ result.msg = msgYouWin
  /\ includes(playedBy, "bot")

\* C10: once a bot move has announced the player's win, no submission and no
\* bot move adds a word or changes the required letter.
C10_WinIsTerminal ==
  [][youWinShown => used' = used /\ lastLetter' = lastLetter]_vars

\* after the win was announced the player submitted a vocabulary word again
C10_Witness ==
  /\ youWinShown
  /\ result.msg \in RejectionMessages
  /\ Submitted \in Vocabulary


\* the latest word was not the player's: it is not the bot's turn
NotBotsTurn == used = <<>> \/ playedBy[Len(playedBy)] = "bot"

\* C11: a bot move that runs when it is not the bot's turn (nothing played,
\* or the latest word is the bot's own) plays no word and leaves the played
\* sequence and the required letter as they were.
C11_BotMoveOutOfTurnIsNoOp ==
  [][botMove /\ NotBotsTurn => used' = used /\ lastLetter' = lastLetter]_vars

\* C12: while a bot move is pending nothing but that bot move changes the
\* played sequence or the required letter: a submission made during the
\* thinking delay is not accepted.
C12_DelayKeepsState ==
  [][pendingBotMoves > 0 =>
       botMove \/ (used' = used /\ lastLetter' = lastLetter)]_vars


\* the end-to-end run of the specification: the list, what the player
\* submits, and the required letter after each submission
runWordlist == [i \in 1..Len(wordlistAtlas) |-> wordlistAtlas[i].norm]
runSubmissions ==
  << <<"I","n","d","i","a">>,
     <<"a","f","g","h","a","n","i","s","t","a","n">>,
     <<"n","e","p","a","l">>,
     <<"l","a","o","s">> >>
runWords == [i \in 1..Len(runSubmissions) |-> normalizeInput(runSubmissions[i])]
runLetters == <<"a", "n", "l", "s">>

\* the run has got as far as its k-th submission, all words the player's
RunAt(k) ==
  /\ wordlist = runWordlist
  /\ used = SubSeq(runWords, 1, k)
  /\ \A i \in 1..k : playedBy[i] = "player"

\* C13: with the vocabulary india, afghanistan, nepal, laos the submissions
\* "India", "afghanistan", "nepal", "laos" are accepted one after the other,
\* the required letter becoming a, n, l, s, and a bot move run after the
\* fourth finds no word starting with s: it announces the player's win and
\* plays nothing.
C13_EndToEndRun ==
  /\ [][\A k \in 0..3 :
          playWord /\ RunAt(k) /\ userWord = runSubmissions[k+1] =>
            /\ RunAt(k+1)'
            /\ lastLetter' = runLetters[k+1]
            /\ result'.msg = msgYouPlayed]_vars
  /\ [][botMove /\ RunAt(4) =>
          /\ result'.msg = msgYouWin
          /\ used' = used
          /\ lastLetter' = "s"]_vars

\* the whole run has happened: four player words, then the win
C13_Witness ==
  /\ RunAt(4)
  /\ Len(used) = 4
  /\ lastLetter = "s"
  /\ result.msg = msgYouWin


\* the other case of an ASCII letter; any other character is itself
flipCase(c) ==
  IF \E i \in 1..26 : upperLetters[i] = c
    THEN lowerLetters[CHOOSE i \in 1..26 : upperLetters[i] = c]
  ELSE IF \E i \in 1..26 : lowerLetters[i] = c
    THEN upperLetters[CHOOSE i \in 1..26 : lowerLetters[i] = c]
  ELSE c

separators == {" ", "-", "!", ".", "'"}

\* the texts one edit away from x: one letter in the other case, one
\* space, hyphen or punctuation mark put in, or one taken out
Variants(x) ==
  {[x EXCEPT ![i] = flipCase(x[i])] : i \in 1..Len(x)}
  \cup {SubSeq(x, 1, i) \o <<c>> \o SubSeq(x, i + 1, Len(x)) :
          i \in 0..Len(x), c \in separators}
  \cup {SubSeq(x, 1, i - 1) \o SubSeq(x, i + 1, Len(x)) :
          i \in {j \in 1..Len(x) : x[j] \in separators}}

\* C14: normalising is idempotent, its result holds only the letters a to
\* z, and texts that differ only in letter case, spaces, hyphens or
\* punctuation normalise to the same word.
C14_NormalizeCanonical ==
  LET n == normalizeInput(userWord)
  IN  /\ normalizeInput(n) = n
      /\ \A i \in 1..Len(n) : \E j \in 1..26 : n[i] = lowerLetters[j]
      /\ \A y \in Variants(userWord) : normalizeInput(y) = n

\* the handler has normalised a text holding an upper-case letter and a
\* separator, which is not its own normal form
C14_Witness ==
  /\ result.msg = msgInvalid
  /\ \E i \in 1..Len(userWord) : userWord[i] = "B"
  /\ \E i \in 1..Len(userWord) : userWord[i] \in separators
  /\ normalizeInput(userWord) # userWord
  /\ Len(normalizeInput(userWord)) >= 2


\* the display form of the first item of data whose normalised form is n
FirstPretty(data, n) ==
  data[CHOOSE i \in 1..Len(data) :
         /\ data[i].norm = n
         /\ \A j \in 1..(i - 1) : data[j].norm # n].pretty

\* data holds two items with one normalised form
HasDuplicate(data) ==
  \E i, j \in 1..Len(data) : i # j /\ data[i].norm = data[j].norm

\* C15: once the list is loaded no normalised form is in the index twice,
\* every key is non-empty and its own normal form, and a list with two
\* items of one normalised form was either rejected (nothing indexed) or
\* indexed with the first of them.
C15_UniqueKeys ==
  fetchState = "done" =>
    /\ \A i, j \in 1..Len(wordlist) : wordlist[i] = wordlist[j] => i = j
    /\ \A i \in 1..Len(wordlist) :
         wordlist[i] # <<>> /\ normalizeInput(wordlist[i]) = wordlist[i]
    /\ \E data \in WordlistFiles :
         \/ HasDuplicate(data) /\ wordlist = <<>>
         \/ /\ Vocabulary = {data[i].norm : i \in 1..Len(data)}
            /\ \A n \in Vocabulary : prettyOf(prettyMap, n) = FirstPretty(data, n)


\* how many words each party has played
PlayerWords == Cardinality({i \in 1..Len(playedBy) : playedBy[i] = "player"})
BotWords == Cardinality({i \in 1..Len(playedBy) : playedBy[i] = "bot"})

\* C16: each accepted player word arms exactly one bot move, which in the
\* end runs and plays a word or reports the bot stuck: the bot's responses
\* (words and stuck reports) plus the pending timers always number the
\* accepted player words, so the bot never has more words than the player;
\* and whenever timers are pending a state follows in which all have run,
\* every accepted word then having its response.
C16_OneBotMovePerWord ==
  /\ [](/\ BotWords + stuckReports + pendingBotMoves = PlayerWords
        /\ BotWords <= PlayerWords)
  /\ [][playWord /\ used' # used => pendingBotMoves' = pendingBotMoves + 1]_vars
  /\ (pendingBotMoves > 0) ~>
       (pendingBotMoves = 0 /\ BotWords + stuckReports = PlayerWords)

\* the bot has answered one player word with a word and another with a
\* stuck report, and no timer is left
C16_Witness ==
  /\ BotWords >= 1
  /\ stuckReports >= 1
  /\ pendingBotMoves = 0
  /\ PlayerWords = BotWords + stuckReports


\* no submission and no bot move can add a word: every vocabulary word is
\* played or, a word having been played, starts with another letter than
\* the required one, and no pending bot move has a candidate
NoMoveCanAdd ==
  /\ \A w \in Vocabulary : w \in Played \/ (used # <<>> /\ w[1] # lastLetter)
  /\ pendingBotMoves = 0 \/ LegalWords = {}

\* C17 as stated: the played sequence is never longer than the number of
\* distinct vocabulary entries, and every game reaches, for good, a state
\* in which no submission and no bot move can add a word.
C17_GameReachesDeadEnd ==
  /\ [](Len(used) <= Cardinality(Vocabulary))
  /\ <>[]NoMoveCanAdd

\* C17 as amended: the played sequence is never longer than the number of
\* distinct vocabulary entries, so only finitely many words are accepted:
\* from some point on no step adds a word or changes the required letter.
C17_FinitelyManyWords ==
  /\ [](Len(used) <= Cardinality(Vocabulary))
  /\ <>[][used' = used /\ lastLetter' = lastLetter]_vars

\* every vocabulary word has been played
C17_Witness ==
  /\ fetchState = "done"
  /\ Len(used) = Cardinality(Vocabulary)
  /\ includes(playedBy, "bot")
  /\ NoMoveCanAdd


\* the latest word is the bot's, no timer is pending and the player has no
\* legal word
PlayerStuck ==
  /\ used # <<>>
  /\ playedBy[Len(playedBy)] = "bot"
  /\ pendingBotMoves = 0
  /\ LegalWords = {}

\* PlayerStuck as the bot's word leaves it: its message is still shown
PlayerStuckByBotWord == PlayerStuck /\ result.msg = msgBotPlayed

\* C18: once a bot word leaves the player without a legal word and no bot
\* move is pending, the game is stuck without an outcome: every submission
\* is rejected, no bot move is armed, the played sequence and the required
\* letter stay as they are, and no win is announced, then or before; the
\* code has no message for a loss.
C18_PlayerStuckForGood ==
  /\ [](PlayerStuckByBotWord => ~youWinShown)
  /\ [][PlayerStuck /\ ~youWinShown =>
          /\ PlayerStuck' /\ ~youWinShown'
          /\ used' = used
          /\ lastLetter' = lastLetter
          /\ pendingBotMoves' = 0
          /\ result'.msg \in RejectionMessages \cup {msgBotPlayed}
          /\ playWord => result'.msg \in RejectionMessages]_vars

\* the player is stuck with unplayed words left and has had a vocabulary
\* word rejected
C18_Witness ==
  /\ PlayerStuck
  /\ ~youWinShown
  /\ Vocabulary \ Played # {}
  /\ result.msg = msgMustStart
  /\ Submitted \in Vocabulary \ Played


\* C19 as stated: every submission handled before the load callback is
\* rejected as an unknown word and leaves the match state as it was; the
\* callback fills the index in one step, and nothing changes it afterwards.
C19_SubmissionBeforeLoadUnknown ==
  /\ [][playWord /\ fetchState = "pending" =>
          /\ result'.msg = msgInvalid
          /\ used' = used /\ lastLetter' = lastLetter
          /\ pendingBotMoves' = pendingBotMoves]_vars
  /\ [][wordlist' # wordlist \/ prettyMap' # prettyMap =>
          /\ fetchState = "pending" /\ fetchState' = "done"
          /\ \E data \in WordlistFiles :
               wordlist' = [i \in 1..Len(data) |-> data[i].norm]]_vars

\* C19 as amended: a submission handled before the load callback is
\* rejected, as an unknown word when its normalised form is non-empty (even
\* if the word is in the list) and as empty input otherwise, and leaves the
\* match state as it was; the callback fills the index in one step, and
\* nothing changes it afterwards.
C19_SubmissionBeforeLoadRejected ==
  /\ [][playWord /\ fetchState = "pending" =>
          /\ result'.msg = IF Submitted = <<>> THEN msgPleaseEnter ELSE msgInvalid
          /\ used' = used /\ lastLetter' = lastLetter
          /\ pendingBotMoves' = pendingBotMoves]_vars
  /\ [][wordlist' # wordlist \/ prettyMap' # prettyMap =>
          /\ fetchState = "pending" /\ fetchState' = "done"
          /\ \E data \in WordlistFiles :
               wordlist' = [i \in 1..Len(data) |-> data[i].norm]]_vars

\* a word of the list was rejected as unknown before the list was loaded,
\* and the list has been loaded since
C19_Witness ==
  /\ fetchState = "done"
  /\ used = <<>>
  /\ result.msg = msgInvalid
  /\ Submitted \in Vocabulary

====
